---- MODULE Spec2Model ----
(***************************************************************************)
(* A model of the parse orchestration layer of the gluon parser            *)
(* (parser/src/lib.rs): the span-shrinking pass, the translation and       *)
(* rendering of grammar errors, the pool of temporary vectors, the two     *)
(* partial-parse entry points and the binding scan of reparse_infix.       *)
(*                                                                         *)
(* Text is modelled as a sequence of one-character strings, a span as a    *)
(* record [start, end] of byte positions, an Option as a record            *)
(* [some, val].                                                            *)
(***************************************************************************)
EXTENDS Integers, Sequences, FiniteSets, TLC

VARIABLES
    expr,          \* shrink: the node handed to shrink_hidden_spans
    shrunk,        \* shrink: the node after the passes applied so far
    passes,        \* shrink: how many times the pass has been applied
    infix_attribute, \* parse_infix: the text of the `infix` attribute
    parsed,        \* parse_infix: [done, res], the Result once parsed
    error,         \* Display: the Error being rendered
    message,       \* Display: [done, text], the rendered message
    entry,         \* parse: the entry point called, "expr" or "repl_line"
    input,         \* parse: the source, [start_index, len]
    parse_errors,  \* parse: the error sink handed to the grammar
    pc,            \* parse: "grammar" while the grammar runs, then "done"
    result,        \* parse: what the grammar ended with, a tree or a fatal error
    returned,      \* parse: [ok, tree, errors], what the entry point returns
    temp_vecs,     \* pool: TempVecs, [exprs, patterns], each a stack of lists
    checked_out,   \* pool: the lists the grammar's actions hold, by element kind
    last_op,       \* pool: the last operation on the pool, [op, kind, list]
    metadata,      \* reparse: identifier -> its `infix` attribute, if any
    root_patterns, \* reparse: the patterns of the expression, in visiting order
    todo,          \* reparse: the patterns still to visit, next first
    visited,       \* reparse: the patterns visited so far
    errors,        \* reparse: the errors recorded so far
    op_table,      \* reparse: identifier -> [present, meta]
    rpc,           \* reparse: "scan" during the binding scan, then "done"
    reparse_result, \* reparse: the errors of Reparser::reparse
    reparsed       \* reparse: [ok, errors], what reparse_infix returns

shrinkVars == <<expr, shrunk, passes>>
infixVars == <<infix_attribute, parsed>>
displayVars == <<error, message>>
parseVars == <<entry, input, parse_errors, pc, result, returned>>
poolVars == <<temp_vecs, checked_out, last_op>>
reparseVars == <<metadata, root_patterns, todo, visited, errors, op_table, rpc,
                 reparse_result, reparsed>>
vars == <<shrinkVars, infixVars, displayVars, parseVars, poolVars, reparseVars>>

(***************************************************************************)
(* Bounds of the model.                                                    *)
(***************************************************************************)
MaxPos == 2        \* byte positions of the expression trees are 0..MaxPos
MaxStmts == 2      \* most statements of a block / alternatives of a match
MaxPieces == 4     \* an attribute text is made of at most MaxPieces pieces
MaxExpected == 3   \* most alternatives of a rendered expectation set
MaxSink == 2       \* most errors the grammar pushes into the sink
MaxHeld == 2       \* most lists of one kind checked out of the pool at a time
MaxNodes == 2      \* most nodes collected in a checked-out list
MaxFields == 2     \* most fields of a record pattern
MaxPatterns == 1   \* most patterns at the top of the expression

(***************************************************************************)
(* General helpers.                                                        *)
(***************************************************************************)
Last(s) == s[Len(s)]

Min(S) == CHOOSE x \in S : \A y \in S : x <= y
Max(S) == CHOOSE x \in S : \A y \in S : x >= y

\* Span::new of codespan orders its two end points.
SpanNew(start, end) ==
    IF start <= end THEN [start |-> start, end |-> end]
                    ELSE [start |-> end, end |-> start]

(***************************************************************************)
(* Expression nodes.  A node is [kind, span, subs]; subs holds the child   *)
(* expressions the pass can look at, in source order:                      *)
(*   Infix <<lhs, rhs>>        IfElse <<pred, then, else>>                 *)
(*   LetBindings <<body>>      TypeBindings <<body>>                       *)
(*   Do <<bound, body>>        Lambda <<body>>                             *)
(*   Block  the statements     Match  the alternatives' expressions        *)
(* and for the remaining variants their operands.                          *)
(***************************************************************************)
Node(kind, span, subs) == [kind |-> kind, span |-> span, subs |-> subs]

LastKinds == {"Infix", "IfElse", "LetBindings", "TypeBindings", "Do"}
OtherKinds == {"Annotated", "App", "Ident", "Literal", "Projection", "Array",
               "Record", "Tuple", "MacroExpansion", "Error"}
ExprKinds == LastKinds \cup {"Lambda", "Block", "Match"} \cup OtherKinds

\* A variant of the pass that ends a node at its first child.
shrink_first_child(e) ==
    CASE e.kind \in LastKinds \cup {"Lambda"} ->
            [e EXCEPT !.span = SpanNew(e.span.start, e.subs[1].span.end)]
      [] e.kind = "Block" ->
            IF Len(e.subs) = 0 THEN e
            ELSE IF Len(e.subs) = 1 THEN e.subs[1]
            ELSE [e EXCEPT !.span = SpanNew(e.span.start, e.subs[1].span.end)]
      [] e.kind = "Match" ->
            IF Len(e.subs) >= 1
            THEN [e EXCEPT !.span = SpanNew(e.span.start, e.subs[1].span.end)]
            ELSE e
      [] OTHER -> e

shrink_hidden_spans(e) ==
    CASE e.kind \in LastKinds ->
            [e EXCEPT !.span = SpanNew(e.span.start, Last(e.subs).span.end)]
      [] e.kind = "Lambda" ->
            [e EXCEPT !.span = SpanNew(e.span.start, e.subs[1].span.end)]
      [] e.kind = "Block" ->
            IF Len(e.subs) = 0 THEN e
            ELSE IF Len(e.subs) = 1 THEN e.subs[1]
            ELSE [e EXCEPT !.span = SpanNew(e.span.start, Last(e.subs).span.end)]
      [] e.kind = "Match" ->
            IF Len(e.subs) >= 1
            THEN [e EXCEPT !.span = SpanNew(e.span.start, Last(e.subs).span.end)]
            ELSE e
      [] OTHER -> e

(***************************************************************************)
(* The trees the pass is applied to: spans over 0..MaxPos, every child     *)
(* inside its parent, siblings in source order.                            *)
(***************************************************************************)
Spans == {sp \in [start : 0..MaxPos, end : 0..MaxPos] : sp.start <= sp.end}

ChildCounts(kind) ==
    CASE kind \in {"Infix", "Do", "App", "MacroExpansion"} -> {2}
      [] kind = "IfElse" -> {3}
      [] kind \in {"LetBindings", "TypeBindings", "Lambda", "Annotated", "Projection"} -> {1}
      [] kind \in {"Block", "Match"} -> 0..MaxStmts
      [] kind \in {"Array", "Record", "Tuple"} -> 0..1
      [] OTHER -> {0}

Inside(S, sp) == {y \in S : sp.start <= y.span.start /\ y.span.end <= sp.end}

RECURSIVE Chains(_, _, _)
\* The sequences of n nodes of S that lie inside span sp in source order.
Chains(S, sp, n) ==
    IF n = 0 THEN {<<>>}
    ELSE UNION {{Append(c, x) : x \in {y \in Inside(S, sp) :
                                         c = <<>> \/ Last(c).span.end <= y.span.start}}
                : c \in Chains(S, sp, n - 1)}

NodesOver(S, kinds) ==
    UNION {UNION {{Node(ks[1], ks[2], c) : c \in Chains(S, ks[2], n)}
                  : n \in ChildCounts(ks[1])}
           : ks \in kinds \X Spans}

Atoms == NodesOver({}, {"Ident"})
InnerKinds == {"Infix"}
Inner == NodesOver(Atoms, InnerKinds)
Exprs == NodesOver(Atoms \cup Inner, ExprKinds)

(***************************************************************************)
(* The states in which a part of the model is not in use.                  *)
(***************************************************************************)
IdleNode == Node("Error", SpanNew(0, 0), <<>>)
NoMeta == [fixity |-> "", precedence |-> 0]
NoResult == [ok |-> FALSE, val |-> NoMeta, err |-> ""]

\* The parser's Error: kind is the variant; detail names the tokenizer,
\* layout or infix error inside; text is the token or message; expected is
\* the expectation set.
Error(kind, detail, text, expected) ==
    [kind |-> kind, detail |-> detail, text |-> text, expected |-> expected]
NoTree == [some |-> FALSE, val |-> ""]
SomeTree(v) == [some |-> TRUE, val |-> v]

DisplayIdle ==
    /\ error = Error("InvalidToken", "", <<>>, <<>>)
    /\ message = [done |-> FALSE, text |-> <<>>]
ParseIdle ==
    /\ entry = ""
    /\ input = [start_index |-> 0, len |-> 0]
    /\ parse_errors = <<>>
    /\ pc = ""
    /\ result = [ok |-> FALSE, tree |-> NoTree, err |-> <<>>]
    /\ returned = [ok |-> FALSE, tree |-> NoTree, errors |-> <<>>]

\* TempVecs::new
TempVecsNew == [exprs |-> <<>>, patterns |-> <<>>]
PoolIdle ==
    /\ temp_vecs = TempVecsNew
    /\ checked_out = [exprs |-> <<>>, patterns |-> <<>>]
    /\ last_op = [op |-> "", kind |-> "", list |-> <<>>]

ReparseIdle ==
    /\ metadata = <<>> /\ root_patterns = <<>> /\ todo = <<>> /\ visited = <<>>
    /\ errors = <<>> /\ op_table = <<>> /\ rpc = ""
    /\ reparse_result = <<>> /\ reparsed = [ok |-> TRUE, errors |-> <<>>]

ShrinkIdle == expr = IdleNode /\ shrunk = IdleNode /\ passes = 0
InfixIdle == infix_attribute = <<>> /\ parsed = [done |-> FALSE, res |-> NoResult]

(***************************************************************************)
(* The pass applied to a node, and applied again to its result.            *)
(***************************************************************************)
ShrinkInit ==
    /\ expr \in Exprs
    /\ shrunk = expr
    /\ passes = 0
    /\ InfixIdle /\ DisplayIdle /\ ParseIdle /\ PoolIdle /\ ReparseIdle

Shrink ==
    /\ passes < 2
    /\ shrunk' = shrink_hidden_spans(shrunk)
    /\ passes' = passes + 1
    /\ UNCHANGED <<expr, infixVars, displayVars, parseVars, poolVars, reparseVars>>

SpecShrink == ShrinkInit /\ [][Shrink]_vars

\* The nodes whose span the pass rewrites, and the child that ends them.
Composite(e) ==
    \/ e.kind \in {"Infix", "IfElse", "LetBindings", "TypeBindings", "Do", "Lambda"}
    \/ e.kind = "Block" /\ Len(e.subs) >= 2
    \/ e.kind = "Match" /\ Len(e.subs) >= 1

SingletonBlock(e) == e.kind = "Block" /\ Len(e.subs) = 1

\* C2: the pass is idempotent: applying it twice to any node gives the same
\* node, shape and span, as applying it once.
C2_Idempotent ==
    passes = 2 => shrunk = shrink_hidden_spans(expr)

\* C8: after the pass a composite node (infix, if-else, let bindings, type
\* bindings, do, lambda, a block of two or more statements, a match with an
\* alternative) keeps its shape and its span start, ends exactly where its
\* last meaningful child ends, and is no wider than before; a node of any
\* other variant (and an empty block or match) is returned unchanged.
C8_SpanNarrowed ==
    passes = 1 =>
        IF Composite(expr)
        THEN /\ shrunk.kind = expr.kind
             /\ shrunk.subs = expr.subs
             /\ shrunk.span.start = expr.span.start
             /\ shrunk.span.end = expr.subs[Len(expr.subs)].span.end
             /\ shrunk.span.end <= expr.span.end
        ELSE SingletonBlock(expr) \/ shrunk = expr

\* C8 witness: a match whose span really was narrowed to its last alternative.
C8_Witness ==
    /\ passes = 1
    /\ expr.kind = "Match"
    /\ Len(expr.subs) = 2
    /\ shrunk.span.end < expr.span.end
    /\ shrunk.span.end = expr.subs[2].span.end

(***************************************************************************)
(* parse_infix: the text of an `infix` attribute to Result<OpMeta, _>.     *)
(***************************************************************************)
I32Max == 2147483647
I32Min == (-I32Max) - 1

Ok(v) == [ok |-> TRUE, val |-> v, err |-> ""]
Err(e) == [ok |-> FALSE, val |-> NoMeta, err |-> e]
OpMeta(fixity, precedence) == [fixity |-> fixity, precedence |-> precedence]

WhiteSpace == {" ", "\t", "\n", "\r"}
Digits == {"0", "1", "2", "3", "4", "5", "6", "7", "8", "9"}
DigitValue(c) ==
    CASE c = "0" -> 0 [] c = "1" -> 1 [] c = "2" -> 2 [] c = "3" -> 3
      [] c = "4" -> 4 [] c = "5" -> 5 [] c = "6" -> 6 [] c = "7" -> 7
      [] c = "8" -> 8 [] c = "9" -> 9

RECURSIVE TrimStart(_)
TrimStart(t) ==
    IF t # <<>> /\ Head(t) \in WhiteSpace THEN TrimStart(Tail(t)) ELSE t

RECURSIVE TrimEnd(_)
TrimEnd(t) ==
    IF t # <<>> /\ Last(t) \in WhiteSpace THEN TrimEnd(SubSeq(t, 1, Len(t) - 1)) ELSE t

\* str::trim
Trim(t) == TrimEnd(TrimStart(t))

RECURSIVE Find(_, _, _)
\* The index of the first c in t at or after i; 0 when there is none.
Find(t, c, i) ==
    IF i > Len(t) THEN 0 ELSE IF t[i] = c THEN i ELSE Find(t, c, i + 1)

\* s.splitn(2, ","): the text before the first comma, and the text after it
\* when there is a comma.
SplitN2(t) ==
    LET k == Find(t, ",", 1)
    IN IF k = 0 THEN [first |-> t, more |-> FALSE, second |-> <<>>]
       ELSE [first |-> SubSeq(t, 1, k - 1), more |-> TRUE,
             second |-> SubSeq(t, k + 1, Len(t))]

RECURSIVE Accumulate(_, _, _)
\* The digit loop of i32::from_str: checked multiply and add (or subtract).
Accumulate(digs, acc, sign) ==
    IF digs = <<>> THEN [ok |-> TRUE, val |-> acc]
    ELSE IF Head(digs) \notin Digits THEN [ok |-> FALSE, val |-> 0]
    ELSE LET next == acc * 10 + sign * DigitValue(Head(digs))
         IN IF next > I32Max \/ next < I32Min THEN [ok |-> FALSE, val |-> 0]
            ELSE Accumulate(Tail(digs), next, sign)

\* str::parse::<i32>
ParseI32(t) ==
    IF t = <<>> \/ t = <<"+">> \/ t = <<"-">> THEN [ok |-> FALSE, val |-> 0]
    ELSE IF Head(t) = "+" THEN Accumulate(Tail(t), 0, 1)
    ELSE IF Head(t) = "-" THEN Accumulate(Tail(t), 0, -1)
    ELSE Accumulate(t, 0, 1)

Left == <<"l", "e", "f", "t">>
Right == <<"r", "i", "g", "h", "t">>

\* A variant of parse_infix that does not reject a negative precedence.
parse_infix_any_sign(t) ==
    LET parts == SplitN2(t)
        word == Trim(parts.first)
        number == ParseI32(Trim(parts.second))
    IN IF word \notin {Left, Right} THEN Err("InvalidFixity")
       ELSE IF ~parts.more \/ ~number.ok THEN Err("InvalidPrecedence")
       ELSE Ok(OpMeta(IF word = Left THEN "Left" ELSE "Right", number.val))

parse_infix(t) ==
    LET parts == SplitN2(t)
        word == Trim(parts.first)
        number == ParseI32(Trim(parts.second))
    IN IF word \notin {Left, Right} THEN Err("InvalidFixity")
       ELSE IF ~parts.more \/ ~number.ok \/ ~(number.val >= 0)
            THEN Err("InvalidPrecedence")
       ELSE Ok(OpMeta(IF word = Left THEN "Left" ELSE "Right", number.val))

(***************************************************************************)
(* The attribute texts: every concatenation of at most MaxPieces pieces.   *)
(***************************************************************************)
Pieces == {Left, Right, <<"x">>, <<" ">>, <<",">>, <<"-">>, <<"+">>, <<"0">>, <<"1">>}

RECURSIVE Concats(_)
Concats(n) ==
    IF n = 0 THEN {<<>>}
    ELSE LET shorter == Concats(n - 1)
         IN shorter \cup {t \o p : t \in shorter, p \in Pieces}

AttrTexts == Concats(MaxPieces)

InfixInit ==
    /\ infix_attribute \in AttrTexts
    /\ parsed = [done |-> FALSE, res |-> NoResult]
    /\ ShrinkIdle /\ DisplayIdle /\ ParseIdle /\ PoolIdle /\ ReparseIdle

ParseInfix ==
    /\ ~parsed.done
    /\ parsed' = [done |-> TRUE, res |-> parse_infix(infix_attribute)]
    /\ UNCHANGED <<infix_attribute, shrinkVars, displayVars, parseVars, poolVars, reparseVars>>

SpecInfix == InfixInit /\ [][ParseInfix]_vars

\* The decimal value of a text of digits.
RECURSIVE Value(_)
Value(t) == IF t = <<>> THEN 0 ELSE 10 * Value(SubSeq(t, 1, Len(t) - 1)) + DigitValue(Last(t))

IsDigits(t) == Len(t) >= 1 /\ \A i \in 1..Len(t) : t[i] \in Digits

\* t is word, ", " and a non-negative integer, and nothing else.
Canonical(t, word) ==
    /\ Len(t) >= Len(word) + 3
    /\ SubSeq(t, 1, Len(word)) = word
    /\ SubSeq(t, Len(word) + 1, Len(word) + 2) = <<",", " ">>
    /\ IsDigits(SubSeq(t, Len(word) + 3, Len(t)))

CanonicalValue(t, word) == Value(SubSeq(t, Len(word) + 3, Len(t)))

\* The text with the white space at both its ends removed.
Stripped(t) ==
    LET ink == {i \in 1..Len(t) : t[i] \notin WhiteSpace}
    IN IF ink = {} THEN <<>> ELSE SubSeq(t, Min(ink), Max(ink))

Commas(t) == {i \in 1..Len(t) : t[i] = ","}
BeforeComma(t) == IF Commas(t) = {} THEN t ELSE SubSeq(t, 1, Min(Commas(t)) - 1)
AfterComma(t) == SubSeq(t, Min(Commas(t)) + 1, Len(t))

\* t is an integer of 0..I32Max, with or without a sign ("-0" is 0).
IsPrecedence(t) ==
    LET digs == IF t # <<>> /\ Head(t) \in {"+", "-"} THEN Tail(t) ELSE t
    IN /\ IsDigits(digs)
       /\ Value(digs) <= I32Max
       /\ (t[1] = "-" => Value(digs) = 0)

PrecedenceOf(t) == Value(IF Head(t) \in {"+", "-"} THEN Tail(t) ELSE t)

\* C3 as stated: exactly the texts "left, N" and "right, N" parse, to
\* {Left, N} and {Right, N}; every other text is a Fixity error.
C3_OnlyCanonical ==
    parsed.done =>
        IF Canonical(infix_attribute, Left) THEN parsed.res = Ok(OpMeta("Left", CanonicalValue(infix_attribute, Left)))
        ELSE IF Canonical(infix_attribute, Right) THEN parsed.res = Ok(OpMeta("Right", CanonicalValue(infix_attribute, Right)))
        ELSE parsed.res \in {Err("InvalidFixity"), Err("InvalidPrecedence")}

\* C3 amended: "left, N" and "right, N" parse to {Left, N} and {Right, N};
\* a text parses exactly when the text before its first comma is, white
\* space at its ends aside, left or right, and the text after that comma
\* is, white space at its ends aside, an integer of 0..2^31-1 with or
\* without a sign; a text whose fixity word is wrong fails with
\* InvalidFixity and any other rejected text with InvalidPrecedence.
C3_ParseInfix ==
    parsed.done =>
        LET word == Stripped(BeforeComma(infix_attribute))
            number == Stripped(AfterComma(infix_attribute))
        IN /\ Canonical(infix_attribute, Left) /\ CanonicalValue(infix_attribute, Left) <= I32Max
                => parsed.res = Ok(OpMeta("Left", CanonicalValue(infix_attribute, Left)))
           /\ Canonical(infix_attribute, Right) /\ CanonicalValue(infix_attribute, Right) <= I32Max
                => parsed.res = Ok(OpMeta("Right", CanonicalValue(infix_attribute, Right)))
           /\ IF word \notin {Left, Right} THEN parsed.res = Err("InvalidFixity")
              ELSE IF Commas(infix_attribute) = {} \/ ~IsPrecedence(number)
                   THEN parsed.res = Err("InvalidPrecedence")
              ELSE parsed.res = Ok(OpMeta(IF word = Left THEN "Left" ELSE "Right",
                                          PrecedenceOf(number)))

\* C3 witness: a text that is not "left, N" (no space after the comma, a
\* sign) and was parsed to a precedence.
C3_Witness ==
    /\ parsed.done
    /\ infix_attribute = Left \o <<",", "+", "1">>
    /\ parsed.res = Ok(OpMeta("Left", 1))

(***************************************************************************)
(* Display of Error: the message of a token-kind error and its clause of   *)
(* expected alternatives.                                                  *)
(***************************************************************************)
\* The literal texts of the format strings.
ExpectedText ==
    <<"\n", "E", "x", "p", "e", "c", "t", "e", "d", " ">>
ExpectedOneOfText ==
    <<"\n", "E", "x", "p", "e", "c", "t", "e", "d", " ", "o", "n", "e", " ", "o", "f", " ">>
UnexpectedTokenText ==
    <<"U", "n", "e", "x", "p", "e", "c", "t", "e", "d", " ", "t", "o", "k", "e", "n", ":", " ">>
UnexpectedEofText ==
    <<"U", "n", "e", "x", "p", "e", "c", "t", "e", "d", " ", "e", "n", "d", " ", "o", "f", " ", "f", "i", "l", "e">>

RECURSIVE ExpectedTokens(_, _)
\* The loop of Expected::fmt from alternative i on: each alternative is
\* written as "{} {}", its separator and itself.
ExpectedTokens(expected, i) ==
    IF i > Len(expected) THEN <<>>
    ELSE LET sep == IF i = 1 THEN <<>>
                    ELSE IF i < Len(expected) THEN <<",">>
                    ELSE <<" ", "o", "r">>
         IN sep \o <<" ">> \o expected[i] \o ExpectedTokens(expected, i + 1)

\* impl Display for Expected
ExpectedFmt(expected) ==
    (CASE Len(expected) = 0 -> <<>>
       [] Len(expected) = 1 -> ExpectedText
       [] OTHER -> ExpectedOneOfText)
    \o ExpectedTokens(expected, 1)

\* impl Display for Error, for the two token-kind errors
Display(e) ==
    CASE e.kind = "UnexpectedToken" ->
            UnexpectedTokenText \o e.text \o ExpectedFmt(e.expected)
      [] e.kind = "UnexpectedEof" ->
            UnexpectedEofText \o ExpectedFmt(e.expected)

TokenLabels == {<<"i", "d">>, <<"(">>, <<"i", "n">>}

RECURSIVE SeqsUpTo(_, _)
\* The sequences of at most n elements of S.
SeqsUpTo(S, n) ==
    IF n = 0 THEN {<<>>}
    ELSE LET shorter == SeqsUpTo(S, n - 1)
         IN shorter \cup {Append(q, x) : q \in shorter, x \in S}

DisplayInit ==
    /\ error \in {Error("UnexpectedToken", "", <<"+">>, ex) : ex \in SeqsUpTo(TokenLabels, MaxExpected)}
                 \cup {Error("UnexpectedEof", "", <<>>, ex) : ex \in SeqsUpTo(TokenLabels, MaxExpected)}
    /\ message = [done |-> FALSE, text |-> <<>>]
    /\ ShrinkIdle /\ InfixIdle /\ ParseIdle /\ PoolIdle /\ ReparseIdle

DisplayError ==
    /\ ~message.done
    /\ message' = [done |-> TRUE, text |-> Display(error)]
    /\ UNCHANGED <<error, shrinkVars, infixVars, parseVars, poolVars, reparseVars>>

SpecDisplay == DisplayInit /\ [][DisplayError]_vars

\* The message before the clause of expected alternatives.
MessageHead(e) ==
    IF e.kind = "UnexpectedToken" THEN UnexpectedTokenText \o e.text
    ELSE UnexpectedEofText

RECURSIVE Listed(_, _)
\* The alternatives from i on, in order: ", " between them, " or " before
\* the last.
Listed(expected, i) ==
    IF i = Len(expected) THEN expected[i]
    ELSE expected[i]
         \o (IF i + 1 = Len(expected) THEN <<" ", "o", "r", " ">> ELSE <<",", " ">>)
         \o Listed(expected, i + 1)

\* C7: the message of a token-kind error ends with nothing when the
\* expectation set is empty, with the clause "Expected X" (on a line of its
\* own) for one alternative X, and with "Expected one of X, Y or Z" for
\* several.
C7_ExpectedClause ==
    message.done =>
        message.text =
            MessageHead(error)
            \o (CASE Len(error.expected) = 0 -> <<>>
                  [] Len(error.expected) = 1 ->
                        ExpectedText \o Listed(error.expected, 1)
                  [] OTHER ->
                        ExpectedOneOfText \o Listed(error.expected, 1))

(***************************************************************************)
(* Error translation: the grammar's errors (lalrpop_util::ParseError) to   *)
(* spanned Errors.                                                         *)
(***************************************************************************)
Spanned(span, value) == [span |-> span, value |-> value]
\* pos::spanned2
spanned2(start, end, value) == Spanned(SpanNew(start, end), value)

NoError == Spanned(SpanNew(0, 0), Error("", "", <<>>, <<>>))

\* The grammar's error: kind is the variant; location (and end, for a
\* token) its position; error the spanned Error of the User variant.
LalrpopError(kind, location, end, token, expected, err) ==
    [kind |-> kind, location |-> location, end |-> end, token |-> token,
     expected |-> expected, error |-> err]

Quote == "\""

\* remove_extra_quotes, for one token
remove_extra_quotes_1(token) ==
    IF token # <<>> /\ Head(token) = Quote /\ Last(token) = Quote
    THEN SubSeq(token, 2, Len(token) - 1)
    ELSE token

remove_extra_quotes(tokens) ==
    [i \in 1..Len(tokens) |-> remove_extra_quotes_1(tokens[i])]

\* BytePos::default()
BytePosDefault == 0

\* ParserSource::span
SourceSpan(src) == SpanNew(src.start_index, src.start_index + src.len)

\* A variant of Error::from_lalrpop that keeps the location it is given.
from_lalrpop_keep_location(source_span, err) ==
    CASE err.kind = "InvalidToken" ->
            spanned2(err.location, err.location, Error("InvalidToken", "", <<>>, <<>>))
      [] err.kind = "UnrecognizedToken" ->
            spanned2(err.location, err.end,
                     Error("UnexpectedToken", "", err.token, remove_extra_quotes(err.expected)))
      [] err.kind = "UnrecognizedEOF" ->
            spanned2(err.location, err.location,
                     Error("UnexpectedEof", "", <<>>, remove_extra_quotes(err.expected)))
      [] err.kind = "ExtraToken" ->
            spanned2(err.location, err.end, Error("ExtraToken", "", err.token, <<>>))
      [] err.kind = "User" -> err.error

\* Error::from_lalrpop
from_lalrpop(source_span, err) ==
    CASE err.kind = "InvalidToken" ->
            spanned2(err.location, err.location, Error("InvalidToken", "", <<>>, <<>>))
      [] err.kind = "UnrecognizedToken" ->
            spanned2(err.location, err.end,
                     Error("UnexpectedToken", "", err.token, remove_extra_quotes(err.expected)))
      [] err.kind = "UnrecognizedEOF" ->
            LET location == IF err.location = BytePosDefault
                            THEN source_span.end
                            ELSE err.location
            IN spanned2(location, location,
                        Error("UnexpectedEof", "", <<>>, remove_extra_quotes(err.expected)))
      [] err.kind = "ExtraToken" ->
            spanned2(err.location, err.end, Error("ExtraToken", "", err.token, <<>>))
      [] err.kind = "User" -> err.error

transform_errors(source_span, errs) ==
    [i \in 1..Len(errs) |-> from_lalrpop(source_span, errs[i])]

\* Errors::has_errors
has_errors(errs) == Len(errs) > 0

(***************************************************************************)
(* parse_partial_expr and parse_partial_repl_line.  The grammar is the     *)
(* environment: it pushes errors into the sink while it runs and ends with *)
(* a tree or with a fatal error.                                           *)
(***************************************************************************)
NoLalrpopError == LalrpopError("", 0, 0, <<>>, <<>>, NoError)
GrammarOk(tree) == [ok |-> TRUE, tree |-> tree, err |-> NoLalrpopError]
GrammarErr(err) == [ok |-> FALSE, tree |-> NoTree, err |-> err]

ReturnOk(tree) == [ok |-> TRUE, tree |-> tree, errors |-> <<>>]
ReturnErr(tree, errs) == [ok |-> FALSE, tree |-> tree, errors |-> errs]

\* A variant of the entry points' match that returns only the fatal error.
parse_result_fatal_only(src, res, errs) ==
    IF res.ok
    THEN IF has_errors(errs)
         THEN ReturnErr(res.tree, transform_errors(SourceSpan(src), errs))
         ELSE ReturnOk(res.tree)
    ELSE ReturnErr(NoTree, transform_errors(SourceSpan(src), <<res.err>>))

\* The match on the grammar's result that ends both entry points.
parse_result(src, res, errs) ==
    IF res.ok
    THEN IF has_errors(errs)
         THEN ReturnErr(res.tree, transform_errors(SourceSpan(src), errs))
         ELSE ReturnOk(res.tree)
    ELSE ReturnErr(NoTree, transform_errors(SourceSpan(src), Append(errs, res.err)))

QuotedIn == <<Quote, "i", "n", Quote>>
ExpectedSamples == {<<>>, <<QuotedIn>>, <<<<"i", "d">>, <<Quote>>>>}
Locations == {BytePosDefault, 3}

LalrpopErrors ==
    {LalrpopError("InvalidToken", l, l, <<>>, <<>>, NoError) : l \in Locations}
    \cup {LalrpopError("UnrecognizedToken", 1, 2, <<"+">>, ex, NoError) : ex \in ExpectedSamples}
    \cup {LalrpopError("UnrecognizedEOF", l, l, <<>>, ex, NoError) :
            l \in Locations, ex \in ExpectedSamples}
    \cup {LalrpopError("ExtraToken", 2, 3, <<")">>, <<>>, NoError)}
    \cup {LalrpopError("User", 0, 0, <<>>, <<>>,
                       Spanned(SpanNew(1, 2), Error("Token", "UnterminatedStringLiteral", <<>>, <<>>)))}

\* A str source starts at 1; a FileMap starts where its span starts.
Inputs == {[start_index |-> 1, len |-> 0], [start_index |-> 1, len |-> 4],
           [start_index |-> 7, len |-> 2]}

ParseInit ==
    /\ entry \in {"expr", "repl_line"}
    /\ input \in Inputs
    /\ parse_errors = <<>>
    /\ pc = "grammar"
    /\ result = GrammarOk(NoTree)
    /\ returned = ReturnOk(NoTree)
    /\ ShrinkIdle /\ InfixIdle /\ DisplayIdle /\ PoolIdle /\ ReparseIdle

\* A semantic action of the grammar pushes an error into the sink.
GrammarPush ==
    /\ pc = "grammar"
    /\ Len(parse_errors) < MaxSink
    /\ \E err \in LalrpopErrors : parse_errors' = Append(parse_errors, err)
    /\ UNCHANGED <<entry, input, pc, result, returned, shrinkVars, infixVars, displayVars, poolVars, reparseVars>>

parse_partial_expr ==
    /\ pc = "grammar"
    /\ entry = "expr"
    /\ result' \in {GrammarOk(SomeTree("expr"))} \cup {GrammarErr(err) : err \in LalrpopErrors}
    /\ returned' = parse_result(input, result', parse_errors)
    /\ parse_errors' = IF result'.ok THEN parse_errors ELSE Append(parse_errors, result'.err)
    /\ pc' = "done"
    /\ UNCHANGED <<entry, input, shrinkVars, infixVars, displayVars, poolVars, reparseVars>>

parse_partial_repl_line ==
    /\ pc = "grammar"
    /\ entry = "repl_line"
    /\ result' \in {GrammarOk(tree) : tree \in {NoTree, SomeTree("Expr"), SomeTree("Let")}}
                  \cup {GrammarErr(err) : err \in LalrpopErrors}
    /\ returned' = parse_result(input, result', parse_errors)
    /\ parse_errors' = IF result'.ok THEN parse_errors ELSE Append(parse_errors, result'.err)
    /\ pc' = "done"
    /\ UNCHANGED <<entry, input, shrinkVars, infixVars, displayVars, poolVars, reparseVars>>

ParseNext == GrammarPush \/ parse_partial_expr \/ parse_partial_repl_line

SpecParse == ParseInit /\ [][ParseNext]_vars

\* The errors the grammar pushed into the sink (the entry point pushes the
\* fatal error after them).
Sink == IF result.ok THEN parse_errors ELSE SubSeq(parse_errors, 1, Len(parse_errors) - 1)

\* C1: an entry point returns Ok exactly when the grammar ended with a
\* result and the sink is empty; otherwise it returns Err with a non-empty
\* list holding the translation of every sink error, in order, followed by
\* the translation of the fatal error when there is one, and with the
\* grammar's tree, or no tree after a fatal error.
C1_NoErrorDiscarded ==
    pc = "done" =>
        /\ returned.ok <=> (result.ok /\ Sink = <<>>)
        /\ returned.ok => returned.tree = result.tree /\ returned.errors = <<>>
        /\ ~returned.ok =>
              /\ returned.errors # <<>>
              /\ Len(returned.errors) = Len(Sink) + (IF result.ok THEN 0 ELSE 1)
              /\ \A i \in 1..Len(Sink) :
                    returned.errors[i] = from_lalrpop(SourceSpan(input), Sink[i])
              /\ ~result.ok =>
                    Last(returned.errors) = from_lalrpop(SourceSpan(input), result.err)
              /\ returned.tree = (IF result.ok THEN result.tree ELSE NoTree)

\* C1 witness: a fatal error after two errors in the sink: three errors and
\* no tree are returned.
C1_Witness ==
    /\ pc = "done"
    /\ ~result.ok
    /\ Len(Sink) = 2
    /\ ~returned.ok
    /\ Len(returned.errors) = 3
    /\ returned.tree = NoTree

\* An expected-token label without the quotes lalrpop puts around it.
Unquoted(label) ==
    IF Len(label) >= 1 /\ label[1] = Quote /\ label[Len(label)] = Quote
    THEN [k \in 1..(IF Len(label) = 1 THEN 0 ELSE Len(label) - 2) |-> label[k + 1]]
    ELSE label

\* C6: an unrecognized end-of-input is translated to UnexpectedEof with the
\* expectation set (its labels unquoted), at a zero-width span: at the end
\* of the source span when the grammar gave the all-zero location, at the
\* location the grammar gave otherwise.
C6_EofLocation ==
    pc = "done" =>
        \A i \in 1..Len(parse_errors) :
            parse_errors[i].kind = "UnrecognizedEOF" =>
                LET at == IF parse_errors[i].location = 0
                          THEN input.start_index + input.len
                          ELSE parse_errors[i].location
                IN /\ returned.errors[i].span = [start |-> at, end |-> at]
                   /\ returned.errors[i].value.kind = "UnexpectedEof"
                   /\ returned.errors[i].value.expected =
                         [k \in 1..Len(parse_errors[i].expected) |->
                             Unquoted(parse_errors[i].expected[k])]

\* C6 witness: one end-of-input at the all-zero location, moved to the end
\* of a non-empty source, and one at a location of its own, kept.
C6_Witness ==
    /\ pc = "done"
    /\ input.len > 0
    /\ Len(parse_errors) = 2
    /\ parse_errors[1].kind = "UnrecognizedEOF" /\ parse_errors[1].location = 0
    /\ parse_errors[2].kind = "UnrecognizedEOF" /\ parse_errors[2].location = 3
    /\ returned.errors[1].span.start = input.start_index + input.len
    /\ returned.errors[2].span.start = 3

(***************************************************************************)
(* TempVecs: the pool of temporary vectors.  The grammar's actions are the *)
(* callers: an action checks a list out (pop), collects nodes in it,       *)
(* drains it into the arena and checks it in again (push).                 *)
(***************************************************************************)
ElementKinds == {"SpannedExpr", "SpannedPattern"}

\* A variant of TempVec::select in which both kinds select the same stack.
select_exprs_only(kind) == "exprs"

\* TempVec::select: the stack of the pool that holds lists of this kind.
select(kind) == IF kind = "SpannedExpr" THEN "exprs" ELSE "patterns"

\* TempVecs::push
push(vecs, kind, list) == [vecs EXCEPT ![select(kind)] = Append(@, list)]

\* TempVecs::pop: the list returned and the pool left; Vec::pop gives the
\* last list, unwrap_or_default a new empty one when there is none.
pop(vecs, kind) ==
    LET stack == vecs[select(kind)]
    IN IF stack = <<>>
       THEN [list |-> <<>>, vecs |-> vecs]
       ELSE [list |-> Last(stack),
             vecs |-> [vecs EXCEPT ![select(kind)] = SubSeq(stack, 1, Len(stack) - 1)]]

\* The field of checked_out for an element kind.
Held(kind) == IF kind = "SpannedExpr" THEN "exprs" ELSE "patterns"

RemoveAt(q, i) == SubSeq(q, 1, i - 1) \o SubSeq(q, i + 1, Len(q))

PoolInit ==
    /\ temp_vecs = TempVecsNew
    /\ checked_out = [exprs |-> <<>>, patterns |-> <<>>]
    /\ last_op = [op |-> "new", kind |-> "", list |-> <<>>]
    /\ ShrinkIdle /\ InfixIdle /\ DisplayIdle /\ ParseIdle /\ ReparseIdle

\* An action checks a list out.
CheckOut(kind) ==
    /\ Len(checked_out[Held(kind)]) < MaxHeld
    /\ LET got == pop(temp_vecs, kind)
       IN /\ temp_vecs' = got.vecs
          /\ checked_out' = [checked_out EXCEPT ![Held(kind)] = Append(@, got.list)]
          /\ last_op' = [op |-> "pop", kind |-> kind, list |-> got.list]
    /\ UNCHANGED <<shrinkVars, infixVars, displayVars, parseVars, reparseVars>>

\* An action collects a node in a list it holds.
Collect(kind) ==
    /\ \E i \in 1..Len(checked_out[Held(kind)]) :
          /\ Len(checked_out[Held(kind)][i]) < MaxNodes
          /\ checked_out' = [checked_out EXCEPT ![Held(kind)][i] = Append(@, "node")]
    /\ last_op' = [op |-> "collect", kind |-> kind, list |-> <<>>]
    /\ UNCHANGED <<temp_vecs, shrinkVars, infixVars, displayVars, parseVars, reparseVars>>

\* An action drains a list it holds into the arena and checks it in.
CheckIn(kind) ==
    /\ \E i \in 1..Len(checked_out[Held(kind)]) :
          LET drained == <<>>
          IN /\ temp_vecs' = push(temp_vecs, kind, drained)
             /\ checked_out' = [checked_out EXCEPT ![Held(kind)] = RemoveAt(@, i)]
             /\ last_op' = [op |-> "push", kind |-> kind, list |-> drained]
    /\ UNCHANGED <<shrinkVars, infixVars, displayVars, parseVars, reparseVars>>

PopExpr == CheckOut("SpannedExpr")
PopPattern == CheckOut("SpannedPattern")
CollectExpr == Collect("SpannedExpr")
CollectPattern == Collect("SpannedPattern")
PushExpr == CheckIn("SpannedExpr")
PushPattern == CheckIn("SpannedPattern")

PoolNext ==
    \/ PopExpr \/ PopPattern
    \/ CollectExpr \/ CollectPattern
    \/ PushExpr \/ PushPattern

SpecPool == PoolInit /\ [][PoolNext]_vars

\* Every list in the pool, and the list the last pop returned, is empty.
PoolListsEmpty ==
    /\ \A i \in 1..Len(temp_vecs.exprs) : temp_vecs.exprs[i] = <<>>
    /\ \A i \in 1..Len(temp_vecs.patterns) : temp_vecs.patterns[i] = <<>>
    /\ last_op.op = "pop" => last_op.list = <<>>

\* A pop is possible whatever the pool holds.
PopNeverFails ==
    /\ Len(checked_out.exprs) < MaxHeld => ENABLED PopExpr
    /\ Len(checked_out.patterns) < MaxHeld => ENABLED PopPattern

\* What a step does to the two stacks of the pool.
PoolStep ==
    /\ last_op'.kind = "SpannedExpr" => temp_vecs'.patterns = temp_vecs.patterns
    /\ last_op'.kind = "SpannedPattern" => temp_vecs'.exprs = temp_vecs.exprs
    /\ last_op'.op = "pop" /\ last_op'.kind = "SpannedExpr" =>
          IF temp_vecs.exprs = <<>>
          THEN last_op'.list = <<>> /\ temp_vecs'.exprs = <<>>
          ELSE Len(temp_vecs'.exprs) = Len(temp_vecs.exprs) - 1
    /\ last_op'.op = "pop" /\ last_op'.kind = "SpannedPattern" =>
          IF temp_vecs.patterns = <<>>
          THEN last_op'.list = <<>> /\ temp_vecs'.patterns = <<>>
          ELSE Len(temp_vecs'.patterns) = Len(temp_vecs.patterns) - 1
    /\ last_op'.op = "push" /\ last_op'.kind = "SpannedExpr" =>
          temp_vecs'.exprs = Append(temp_vecs.exprs, last_op'.list)
    /\ last_op'.op = "push" /\ last_op'.kind = "SpannedPattern" =>
          temp_vecs'.patterns = Append(temp_vecs.patterns, last_op'.list)

Pattern(kind, span, id, fields, subs) ==
    [kind |-> kind, span |-> span, id |-> id, fields |-> fields, subs |-> subs]
IdentPattern(id, span) == Pattern("Ident", span, id, <<>>, <<>>)
NoPattern == Pattern("", SpanNew(0, 0), <<>>, <<>>, <<>>)
Field(name, span, punned, value) ==
    [name |-> name, span |-> span, punned |-> punned, value |-> value]

Plus == <<"+">>
FPlus == <<"f", "+">>
Ids == {Plus, FPlus}

\* ast::is_operator_char
OperatorChars == {"!", "#", "$", "%", "&", "*", "+", "-", ".", "/", "<", "=", ">",
                  "?", "@", "\\", "^", "|", "~", ":"}
\* id.as_ref().starts_with(is_operator_char)
starts_with_operator_char(id) == id # <<>> /\ Head(id) \in OperatorChars

NoAttribute == [some |-> FALSE, val |-> <<>>]
Attribute(text) == [some |-> TRUE, val |-> text]
\* metadata.get(id).and_then(|meta| meta.get_attribute("infix"))
get_infix_attribute(id) == metadata[id]

NoEntry == [present |-> FALSE, meta |-> NoMeta]
Entry(meta) == [present |-> TRUE, meta |-> meta]
\* OpTable::new(None)
OpTableNew == [id \in Ids |-> NoEntry]

InfixError(span, detail, text) == Spanned(span, Error("Infix", detail, text, <<>>))

\* A variant of insert_infix that reports every identifier without an
\* attribute, operator or not.
insert_infix_any_id(st, id, span) ==
    LET attribute == get_infix_attribute(id)
    IN IF attribute.some
       THEN LET op_meta == parse_infix(attribute.val)
            IN IF op_meta.ok
               THEN [st EXCEPT !.op_table[id] = Entry(op_meta.val)]
               ELSE [st EXCEPT !.errors = Append(@, InfixError(span, op_meta.err, <<>>))]
       ELSE [st EXCEPT !.errors = Append(@, InfixError(span, "UndefinedFixity", id))]

\* A variant of insert_infix that enters a default into the table when the
\* attribute is malformed, besides reporting it.
insert_infix_default(st, id, span) ==
    LET attribute == get_infix_attribute(id)
    IN IF attribute.some
       THEN LET op_meta == parse_infix(attribute.val)
            IN IF op_meta.ok
               THEN [st EXCEPT !.op_table[id] = Entry(op_meta.val)]
               ELSE [st EXCEPT !.errors = Append(@, InfixError(span, op_meta.err, <<>>)),
                               !.op_table[id] = Entry(OpMeta("Left", 0))]
       ELSE IF starts_with_operator_char(id)
            THEN [st EXCEPT !.errors = Append(@, InfixError(span, "UndefinedFixity", id))]
            ELSE st

\* CheckInfix::insert_infix, on st = [errors, op_table]
insert_infix(st, id, span) ==
    LET attribute == get_infix_attribute(id)
    IN IF attribute.some
       THEN LET op_meta == parse_infix(attribute.val)
            IN IF op_meta.ok
               THEN [st EXCEPT !.op_table[id] = Entry(op_meta.val)]
               ELSE [st EXCEPT !.errors = Append(@, InfixError(span, op_meta.err, <<>>))]
       ELSE IF starts_with_operator_char(id)
            THEN [st EXCEPT !.errors = Append(@, InfixError(span, "UndefinedFixity", id))]
            ELSE st

\* The identifiers visit_pattern hands to insert_infix, each with its span:
\* the name of an Ident pattern, the punned fields of a Record pattern.
Bindings(pattern) ==
    CASE pattern.kind = "Ident" -> <<[id |-> pattern.id, span |-> pattern.span]>>
      [] pattern.kind = "Record" ->
            LET punned == SelectSeq(pattern.fields, LAMBDA field : field.punned)
            IN [i \in 1..Len(punned) |-> [id |-> punned[i].name, span |-> punned[i].span]]
      [] OTHER -> <<>>

RECURSIVE InsertAll(_, _)
InsertAll(st, bindings) ==
    IF bindings = <<>> THEN st
    ELSE InsertAll(insert_infix(st, Head(bindings).id, Head(bindings).span), Tail(bindings))

\* walk_pattern: the patterns inside a pattern, in source order.
walk_pattern(pattern) ==
    CASE pattern.kind = "Record" ->
            LET valued == SelectSeq(pattern.fields, LAMBDA field : ~field.punned)
            IN [i \in 1..Len(valued) |-> valued[i].value]
      [] pattern.kind \in {"As", "Tuple", "Constructor"} -> pattern.subs
      [] OTHER -> <<>>

\* A variant of the end of reparse_infix that returns the errors of the
\* binding scan without running the re-association pass.
\* A variant of the extension that keeps only the errors of the scan when
\* there are any.
extend_unless_errors(errs, more) ==
    IF has_errors(errs) THEN errs ELSE errs \o more

\* errors.extend(..)
extend(errs, more) == errs \o more

\* The end of reparse_infix: Err with the errors when there is any.
finish(errs) ==
    IF has_errors(errs) THEN [ok |-> FALSE, errors |-> errs]
    ELSE [ok |-> TRUE, errors |-> <<>>]

(***************************************************************************)
(* The inputs: the metadata and the patterns of the expression.  The span  *)
(* of a pattern is given by its place: the k-th pattern at the top of the  *)
(* expression, its j-th field, the pattern of that field.                  *)
(***************************************************************************)
Stride == 3 * MaxFields + 4
TopSpan(k) == SpanNew(k * Stride, k * Stride + Stride - 1)
NameSpan(k, j) == SpanNew(k * Stride + 3 * j - 2, k * Stride + 3 * j - 1)
ValueSpan(k, j) == SpanNew(k * Stride + 3 * j - 1, k * Stride + 3 * j)
InnerSpan(k) == SpanNew(k * Stride + 2, k * Stride + Stride - 1)

\* The fields a record pattern can have at place j of pattern k.
FieldsAt(k, j) ==
    {Field(name, NameSpan(k, j), TRUE, NoPattern) : name \in Ids}
    \cup {Field(FPlus, NameSpan(k, j), FALSE, IdentPattern(Plus, ValueSpan(k, j)))}

RECURSIVE FieldLists(_, _)
\* The lists of exactly n fields of pattern k.
FieldLists(k, n) ==
    IF n = 0 THEN {<<>>}
    ELSE {Append(fs, f) : fs \in FieldLists(k, n - 1), f \in FieldsAt(k, n)}

PatternsAt(k) ==
    {IdentPattern(id, TopSpan(k)) : id \in Ids}
    \cup {Pattern("Literal", TopSpan(k), <<>>, <<>>, <<>>)}
    \cup {Pattern("As", TopSpan(k), id, <<>>, <<IdentPattern(sub, InnerSpan(k))>>) :
            id \in Ids, sub \in Ids}
    \cup UNION {{Pattern("Record", TopSpan(k), <<>>, fs, <<>>) : fs \in FieldLists(k, n)}
                : n \in 0..MaxFields}

RECURSIVE PatternLists(_)
\* The lists of exactly n patterns at the top of the expression.
PatternLists(n) ==
    IF n = 0 THEN {<<>>}
    ELSE {Append(ps, q) : ps \in PatternLists(n - 1), q \in PatternsAt(n)}

PlusAttributes == {NoAttribute, Attribute(Left \o <<",", " ", "1">>), Attribute(<<"x", ",", "1">>)}
FPlusAttributes == {NoAttribute, Attribute(<<" ">> \o Right \o <<",", "0">>), Attribute(Left)}
Metadatas == {[id \in Ids |-> IF id = Plus THEN a ELSE b] : a \in PlusAttributes, b \in FPlusAttributes}

\* What Reparser::reparse can end with: no error, or one or more spanned
\* infix errors.
ChainError == Spanned(TopSpan(1), [detail |-> "UndefinedFixity", text |-> Plus])
ReparseResults == {<<>>, <<ChainError>>, <<ChainError, ChainError>>}

\* err.map(Error::from), for each error of the re-association pass
from_reparse_errors(reparse_errors) ==
    [i \in 1..Len(reparse_errors) |->
        InfixError(reparse_errors[i].span, reparse_errors[i].value.detail,
                   reparse_errors[i].value.text)]

ReparseInit ==
    /\ metadata \in Metadatas
    /\ root_patterns \in UNION {PatternLists(n) : n \in 0..MaxPatterns}
    /\ todo = root_patterns
    /\ visited = <<>>
    /\ errors = <<>>
    /\ op_table = OpTableNew
    /\ rpc = "scan"
    /\ reparse_result = <<>>
    /\ reparsed = [ok |-> TRUE, errors |-> <<>>]
    /\ ShrinkIdle /\ InfixIdle /\ DisplayIdle /\ ParseIdle /\ PoolIdle

\* CheckInfix::visit_pattern on the next pattern.
visit_pattern ==
    /\ rpc = "scan"
    /\ todo # <<>>
    /\ LET pattern == Head(todo)
           st == InsertAll([errors |-> errors, op_table |-> op_table], Bindings(pattern))
       IN /\ errors' = st.errors
          /\ op_table' = st.op_table
          /\ todo' = walk_pattern(pattern) \o Tail(todo)
          /\ visited' = Append(visited, pattern)
    /\ UNCHANGED <<metadata, root_patterns, rpc, reparse_result, reparsed,
                   shrinkVars, infixVars, displayVars, parseVars, poolVars>>

\* The rest of reparse_infix, once every pattern is visited: the
\* re-association pass runs and its errors are added to those of the scan.
reparse ==
    /\ rpc = "scan"
    /\ todo = <<>>
    /\ reparse_result' \in ReparseResults
    /\ errors' = extend(errors, from_reparse_errors(reparse_result'))
    /\ reparsed' = finish(errors')
    /\ rpc' = "done"
    /\ UNCHANGED <<metadata, root_patterns, todo, visited, op_table,
                   shrinkVars, infixVars, displayVars, parseVars, poolVars>>

ReparseNext == visit_pattern \/ reparse

SpecReparse == ReparseInit /\ [][ReparseNext]_vars

(***************************************************************************)
(* What the scan is expected to do, stated from the inputs.                *)
(***************************************************************************)
\* The patterns directly inside a pattern.
SubPatterns(q) ==
    IF q.kind = "Record"
    THEN LET at == {j \in 1..Len(q.fields) : ~q.fields[j].punned}
             nth(i) == CHOOSE j \in at : Cardinality({l \in at : l < j}) = i - 1
         IN [i \in 1..Cardinality(at) |-> q.fields[nth(i)].value]
    ELSE q.subs

RECURSIVE PreOrder(_)
\* Every pattern of a list of patterns, parents before their children.
PreOrder(ps) ==
    IF ps = <<>> THEN <<>>
    ELSE <<Head(ps)>> \o PreOrder(SubPatterns(Head(ps))) \o PreOrder(Tail(ps))

\* The identifiers a pattern binds by itself, each with the span of the
\* binding: an identifier pattern's name at the pattern's span, a punned
\* record field at the field name's span.
Binders(q) ==
    IF q.kind = "Ident" THEN {[id |-> q.id, span |-> q.span]}
    ELSE IF q.kind = "Record"
    THEN {[id |-> q.fields[j].name, span |-> q.fields[j].span] :
             j \in {l \in 1..Len(q.fields) : q.fields[l].punned}}
    ELSE {}

WellFormedAttribute(text) ==
    /\ Commas(text) # {}
    /\ Stripped(BeforeComma(text)) \in {Left, Right}
    /\ IsPrecedence(Stripped(AfterComma(text)))

MetaOf(text) ==
    OpMeta(IF Stripped(BeforeComma(text)) = Left THEN "Left" ELSE "Right",
           PrecedenceOf(Stripped(AfterComma(text))))

\* What a visit of a bound identifier has to do.
Class(id) ==
    IF metadata[id].some
    THEN IF WellFormedAttribute(metadata[id].val) THEN "insert" ELSE "error"
    ELSE IF id[1] \in OperatorChars THEN "error" ELSE "nothing"

\* The error a visit of class "error" has to record.
ErrorOf(binding) ==
    IF ~metadata[binding.id].some
    THEN InfixError(binding.span, "UndefinedFixity", binding.id)
    ELSE IF Stripped(BeforeComma(metadata[binding.id].val)) \notin {Left, Right}
    THEN InfixError(binding.span, "InvalidFixity", <<>>)
    ELSE InfixError(binding.span, "InvalidPrecedence", <<>>)

RECURSIVE ErrorsOf(_)
\* The errors a list of bindings has to record, in order.
ErrorsOf(bindings) ==
    IF bindings = <<>> THEN <<>>
    ELSE (IF Class(Head(bindings).id) = "error" THEN <<ErrorOf(Head(bindings))>> ELSE <<>>)
         \o ErrorsOf(Tail(bindings))

RECURSIVE BindingsOf(_)
\* The bindings of a list of patterns, in order.
BindingsOf(ps) ==
    IF ps = <<>> THEN <<>> ELSE Bindings(Head(ps)) \o BindingsOf(Tail(ps))

\* C4: a bound operator-shaped identifier without an `infix` attribute gets
\* exactly one error at the span of its binding, and that error is the
\* undefined-fixity error for it; a bound identifier that is not
\* operator-shaped and has no `infix` attribute gets no error.
C4_UndefinedFixity ==
    rpc = "scan" =>
        \A i \in 1..Len(visited) : \A b \in Binders(visited[i]) :
            ~metadata[b.id].some =>
                LET at == {k \in 1..Len(errors) : errors[k].span = b.span}
                IN IF b.id[1] \in OperatorChars
                   THEN /\ Cardinality(at) = 1
                        /\ \A k \in at :
                              errors[k] = Spanned(b.span, Error("Infix", "UndefinedFixity", b.id, <<>>))
                   ELSE at = {}

\* C4 witness: a record pattern with two punned fields and no attribute for
\* either: one error, for the operator, at the span of its field name.
C4_Witness ==
    /\ rpc = "scan"
    /\ ~metadata[Plus].some /\ ~metadata[FPlus].some
    /\ Len(visited) = 1
    /\ visited[1].kind = "Record"
    /\ Len(visited[1].fields) = 2
    /\ visited[1].fields[1].punned /\ visited[1].fields[1].name = FPlus
    /\ visited[1].fields[2].punned /\ visited[1].fields[2].name = Plus
    /\ Len(errors) = 1
    /\ errors[1].span = visited[1].fields[2].span
    /\ errors[1].span # visited[1].span

\* C5: when reparse_infix returns, the scan has visited every pattern of
\* the expression, the re-association pass has run, and the errors are
\* those of the scan in the order of discovery followed by those of the
\* re-association pass, none dropped, none merged; Ok is returned exactly
\* when neither phase recorded an error.
C5_ErrorsCollected ==
    rpc = "done" =>
        LET scan == ErrorsOf(BindingsOf(PreOrder(root_patterns)))
            chains == [i \in 1..Len(reparse_result) |->
                          Spanned(reparse_result[i].span,
                                  Error("Infix", reparse_result[i].value.detail,
                                        reparse_result[i].value.text, <<>>))]
        IN /\ visited = PreOrder(root_patterns)
           /\ errors = scan \o chains
           /\ reparsed.ok <=> (scan = <<>> /\ chains = <<>>)
           /\ ~reparsed.ok => reparsed.errors = scan \o chains
           /\ reparsed.ok => reparsed.errors = <<>>

\* C5 witness: a second pattern was visited after the first error, two
\* errors came from the scan and two equal ones from the re-association
\* pass, and all four are returned.
C5_Witness ==
    /\ rpc = "done"
    /\ Len(visited) >= 2
    /\ Len(reparse_result) = 2
    /\ ~reparsed.ok
    /\ Len(reparsed.errors) = 4
    /\ visited[1].kind = "Record" /\ Len(visited[1].fields) >= 1
    /\ reparsed.errors[1].span = visited[1].fields[1].span
    /\ reparsed.errors[2].span = visited[2].span
    /\ reparsed.errors[3] = reparsed.errors[4]

\* The table holds an entry only for an identifier that a visited pattern
\* binds and whose attribute is well formed, and the entry is the parsed
\* attribute; it is empty before the first visit.
OpTableInv ==
    rpc \in {"scan", "done"} =>
        /\ visited = <<>> => \A id \in Ids : ~op_table[id].present
        /\ \A id \in Ids :
              op_table[id].present =>
                  /\ \E i \in 1..Len(visited) : \E b \in Binders(visited[i]) : b.id = id
                  /\ metadata[id].some
                  /\ WellFormedAttribute(metadata[id].val)
                  /\ op_table[id].meta = MetaOf(metadata[id].val)

\* A visit records one error for each bound identifier of class "error",
\* enters each bound identifier of class "insert", and changes nothing else.
VisitStep ==
    visited' # visited =>
        LET bound == Bindings(Head(todo))
        IN /\ errors' = errors \o ErrorsOf(bound)
           /\ Len(errors') - Len(errors) =
                 Cardinality({i \in 1..Len(bound) : Class(bound[i].id) = "error"})
           /\ \A id \in Ids :
                 IF \E i \in 1..Len(bound) : bound[i].id = id /\ Class(id) = "insert"
                 THEN op_table'[id] = Entry(MetaOf(metadata[id].val))
                 ELSE op_table'[id] = op_table[id]

\* C10: the operator table starts empty and, all along the scan, holds an
\* entry for an identifier only if a visited pattern binds it and the
\* metadata has a well-formed `infix` attribute for it, the entry being the
\* parsed attribute; a visit of a bound identifier enters it (well-formed
\* attribute), or records exactly one error and leaves the table as it is
\* (malformed attribute, or no attribute on an operator-shaped
\* identifier), or changes nothing (no attribute, not operator-shaped).
C10_OpTable ==
    /\ []OpTableInv
    /\ [][VisitStep]_vars

\* C10 witness: one record pattern binds both identifiers; the one with a
\* well-formed attribute is in the table, the one with a malformed
\* attribute is not and has its one error.
C10_Witness ==
    /\ rpc = "scan"
    /\ Len(visited) = 1
    /\ Len(Bindings(visited[1])) = 2
    /\ op_table[Plus] = Entry(OpMeta("Left", 1))
    /\ ~op_table[FPlus].present
    /\ metadata[FPlus].some
    /\ Len(errors) = 1
    /\ errors[1].value.detail = "InvalidPrecedence"

====
